---- MODULE Spec2Model ----
(***************************************************************************)
(* Stock-state reconciliation of the brand inventory monitor.              *)
(*                                                                         *)
(* The repository holds several stand-alone programs that reconcile the    *)
(* stock state of brands against a remembered state:                       *)
(*   "webhook"  src/unnamed/part_001    webhook server, in-memory state    *)
(*              (src/server.js has the same handler without the shortcut   *)
(*              for empty test webhooks)                                   *)
(*   "monitor"  src/shopify-api-only-monitor.js  script, state in a file   *)
(*   "vendors"  src/unnamed/part_000 (lines 1-136) /check-now server that  *)
(*                                      groups the catalog by vendor,      *)
(*                                      state in a file                    *)
(* One behaviour of the model is one deployment: `app` is chosen by Init   *)
(* and never changes.                                                      *)
(*                                                                         *)
(* Every action is one run-to-completion segment of JavaScript: the code   *)
(* between two awaits.  File writes are taken to succeed.                  *)
(***************************************************************************)
EXTENDS Integers, Sequences, FiniteSets, Bags, TLC

(* ------------------------------ bounds -------------------------------- *)
NumBrands == 2      \* length of CONFIG.BRANDS_TO_MONITOR
NumPasses == 2      \* webhook requests that may be in progress at once
MaxProducts == 2    \* products in one catalog answer
MaxBody == 2        \* bytes of a request body between its braces
MaxPages == 2       \* pages of one brand's listing
MaxRequests == 3    \* page requests of one fetch that are followed

Brands == 1..NumBrands
Apps == {"webhook", "monitor", "vendors"}

(* ------------------------------- data --------------------------------- *)
\* A variant carries an integer inventory_quantity, or none at all.
NoQuantity == [id |-> 0]
Quantity(n) == [inventory_quantity |-> n]

\* The variant lists the catalog answers are built from: a product with
\* stock, one with none, and one whose quantities cancel out.
SampleVariants ==
  { <<Quantity(1)>>, <<Quantity(0)>>, <<Quantity(-1), Quantity(1)>> }

SeqsUpTo(S, n) == UNION { [1..k -> S] : k \in 0..n }

\* The variant lists checkBrandStock is called on when taken on its own:
\* quantities positive, zero, negative and missing, alone and mixed.
StockVariants ==
  SampleVariants \cup
  { <<>>, <<Quantity(-1)>>, <<NoQuantity>>, <<NoQuantity, Quantity(1)>>,
    <<NoQuantity, Quantity(-1)>>, <<Quantity(-2), Quantity(1)>>,
    <<Quantity(2), Quantity(-1)>> }

\* What getProductsForBrand can return for one brand.
ProductLists == SeqsUpTo({ [variants |-> v] : v \in SampleVariants }, MaxProducts)

\* What getAllProducts can return: products of any vendor, in any order.
VendorProductLists ==
  SeqsUpTo({ [vendor |-> b, variants |-> v] : b \in Brands, v \in SampleVariants },
           MaxProducts)

Absent == "undefined"            \* no entry for the brand

(* --------------------------- pure functions --------------------------- *)
\* variant.inventory_quantity || 0
QuantityOrZero(variant) ==
  IF "inventory_quantity" \in DOMAIN variant THEN variant.inventory_quantity ELSE 0

\* A variant of the sum, as a slip in the code would make it: a negative
\* quantity counts as none.
RECURSIVE productTotalStockClamped(_)
productTotalStockClamped(variants) ==
  IF variants = <<>> THEN 0
  ELSE (IF QuantityOrZero(Head(variants)) < 0 THEN 0 ELSE QuantityOrZero(Head(variants)))
       + productTotalStockClamped(Tail(variants))

RECURSIVE productTotalStock(_)
productTotalStock(variants) ==
  IF variants = <<>> THEN 0
  ELSE QuantityOrZero(Head(variants)) + productTotalStock(Tail(variants))

RECURSIVE countOOS(_)
countOOS(products) ==
  IF products = <<>> THEN 0
  ELSE (IF productTotalStock(Head(products).variants) <= 0 THEN 1 ELSE 0)
       + countOOS(Tail(products))

\* Variants of checkBrandStock, as a slip in the code would make them: the
\* products in stock are counted apart, as those with a variant in stock;
checkBrandStockMiscount(products) ==
  IF Len(products) = 0
  THEN [allOOS |-> FALSE, totalProducts |-> 0, oosProducts |-> 0, inStockProducts |-> 0]
  ELSE [allOOS |-> (Len(products) = countOOS(products)),
        totalProducts |-> Len(products),
        oosProducts |-> countOOS(products),
        inStockProducts |->
          Cardinality({ i \in DOMAIN products :
                         \E j \in DOMAIN products[i].variants :
                           QuantityOrZero(products[i].variants[j]) > 0 })]

\* the empty list is not set apart.
checkBrandStockNoGuard(products) ==
  [allOOS |-> (Len(products) = countOOS(products)),
   totalProducts |-> Len(products),
   oosProducts |-> countOOS(products),
   inStockProducts |-> Len(products) - countOOS(products)]

\* checkBrandStock of the webhook servers, applied to the fetched products.
checkBrandStock(products) ==
  IF Len(products) = 0
  THEN [allOOS |-> FALSE, totalProducts |-> 0, oosProducts |-> 0, inStockProducts |-> 0]
  ELSE [allOOS |-> (Len(products) = countOOS(products)),
        totalProducts |-> Len(products),
        oosProducts |-> countOOS(products),
        inStockProducts |-> Len(products) - countOOS(products)]

Null == [null |-> TRUE]
IsStock(s) == "allOOS" \in DOMAIN s

\* checkBrandStock of the monitor script: null when the brand has no products.
monitorCheckBrandStock(products) ==
  IF Len(products) = 0 THEN Null
  ELSE [allOOS |-> (Len(products) = countOOS(products)),
        totalProducts |-> Len(products),
        oosProducts |-> countOOS(products),
        inStockProducts |-> Len(products) - countOOS(products)]

\* Variants of the webhook handler's branches, as a slip in the code would
\* make them: the depletion branch asks for a known IN_STOCK state;
webhookTransitionKnownOnly(stockStatus, lastState) ==
  IF stockStatus.allOOS /\ lastState = "IN_STOCK" THEN "OOS"
  ELSE IF ~stockStatus.allOOS /\ stockStatus.inStockProducts > 0 /\ lastState = "OOS"
       THEN "IN_STOCK"
       ELSE "none"

\* the depletion branch does not look at the remembered state;
webhookTransitionAlways(stockStatus, lastState) ==
  IF stockStatus.allOOS THEN "OOS"
  ELSE IF ~stockStatus.allOOS /\ stockStatus.inStockProducts > 0 /\ lastState = "OOS"
       THEN "IN_STOCK"
       ELSE "none"

\* the restock branch fires for every state other than IN_STOCK.
webhookTransitionEager(stockStatus, lastState) ==
  IF stockStatus.allOOS /\ lastState # "OOS" THEN "OOS"
  ELSE IF ~stockStatus.allOOS /\ stockStatus.inStockProducts > 0
          /\ lastState # "IN_STOCK"
       THEN "IN_STOCK"
       ELSE "none"

\* the restock branch does not ask for a product in stock.
webhookTransitionNoStockTest(stockStatus, lastState) ==
  IF stockStatus.allOOS /\ lastState # "OOS" THEN "OOS"
  ELSE IF ~stockStatus.allOOS /\ lastState = "OOS" THEN "IN_STOCK"
       ELSE "none"

\* The if / else-if of the webhook handler: the kind of alert to send and
\* the state to store afterwards, or "none".
webhookTransition(stockStatus, lastState) ==
  IF stockStatus.allOOS /\ lastState # "OOS" THEN "OOS"
  ELSE IF ~stockStatus.allOOS /\ stockStatus.inStockProducts > 0 /\ lastState = "OOS"
       THEN "IN_STOCK"
       ELSE "none"

\* The if / else-if of checkAllBrands.
monitorTransition(stockStatus, previousBrandState) ==
  IF stockStatus.allOOS /\ previousBrandState # "OOS" THEN "OOS"
  ELSE IF ~stockStatus.allOOS /\ previousBrandState = "OOS" THEN "IN_STOCK"
       ELSE "none"

(* ----------------------- signature verification ----------------------- *)
\* The three webhook servers: src/server.js, src/unnamed/part_001 and the
\* server in the second half of src/unnamed/part_000.
Servers == {"server.js", "part_001", "part_000"}

\* A request body is a JSON object; its bytes between the braces are members
\* ("a" and "b", each a key with its value) and insignificant whitespace.
BodyBytes == {"a", "b", " "}
ByteSeqs == SeqsUpTo(BodyBytes, MaxBody)

NoBody == [absent |-> "body"]
RawBody(bytes) == [bytes |-> bytes]
Bodies == {NoBody} \cup { RawBody(bytes) : bytes \in ByteSeqs }

\* JSON.parse: whitespace is dropped and a repeated key keeps its first
\* position.  The value is written as its members in order.
RECURSIVE JSONparse(_, _)
JSONparse(bytes, keys) ==
  IF bytes = <<>> THEN <<>>
  ELSE IF Head(bytes) = " " \/ Head(bytes) \in keys THEN JSONparse(Tail(bytes), keys)
       ELSE <<Head(bytes)>> \o JSONparse(Tail(bytes), keys \cup {Head(bytes)})

\* JSON.stringify: the members in order, with no whitespace.
JSONstringify(value) == value

\* req.body as express.json leaves it: {} when the request has no body.
ParsedBody(rawBody) == IF rawBody = NoBody THEN <<>> ELSE JSONparse(rawBody.bytes, {})

\* createHmac('sha256', secret).update(bytes).digest('base64'): a string of
\* 44 characters that is determined by, and determines, secret and bytes.
DigestLength == 44
Digest(secret, bytes) == [digest |-> <<secret, bytes>>]

SHOPIFY_WEBHOOK_SECRET == "s3cr3t"
Secrets == {SHOPIFY_WEBHOOK_SECRET, "other"}

\* req.get('X-Shopify-Hmac-Sha256'): undefined, a digest, or other text.
NoHeader == [absent |-> "header"]
Text(chars) == [text |-> chars]
Headers ==
  {NoHeader, Text("x")} \cup { Digest(k, bytes) : k \in Secrets, bytes \in ByteSeqs }
HeaderLength(h) == IF "digest" \in DOMAIN h THEN DigestLength ELSE Len(h.text)

Requests == [hmac : Headers, rawBody : Bodies]

\* crypto.timingSafeEqual(Buffer.from(a), Buffer.from(b)): Buffer.from throws
\* on undefined, timingSafeEqual throws on buffers of different lengths.
timingSafeEqual(a, b) ==
  IF b = NoHeader THEN "throws"
  ELSE IF HeaderLength(a) # HeaderLength(b) THEN "throws"
  ELSE IF a = b THEN "true" ELSE "false"

\* try { return ... } catch { return false }
Caught(outcome) == IF outcome = "throws" THEN "false" ELSE outcome

\* src/server.js: the digest of the re-serialised parsed body, compared
\* with ===.
verifyWebhookServer(req) ==
  LET body == JSONstringify(ParsedBody(req.rawBody))
      hash == Digest(SHOPIFY_WEBHOOK_SECRET, body)
  IN IF hash = req.hmac THEN "true" ELSE "false"

\* src/unnamed/part_001: the digest of the raw body, after two guards.
verifyWebhookBuffer(req) ==
  IF req.hmac = NoHeader THEN "false"
  ELSE IF req.rawBody = NoBody THEN "false"
  ELSE Caught(timingSafeEqual(Digest(SHOPIFY_WEBHOOK_SECRET, req.rawBody.bytes),
                              req.hmac))

\* src/unnamed/part_000: the digest of the raw body, computed outside the
\* try; update(undefined) throws.
verifyWebhookString(req) ==
  IF req.rawBody = NoBody THEN "throws"
  ELSE Caught(timingSafeEqual(Digest(SHOPIFY_WEBHOOK_SECRET, req.rawBody.bytes),
                              req.hmac))

\* What verifyWebhook(req) does in each server: "true", "false" or "throws".
verifyWebhook(server, req) ==
  CASE server = "server.js" -> verifyWebhookServer(req)
    [] server = "part_001" -> verifyWebhookBuffer(req)
    [] server = "part_000" -> verifyWebhookString(req)

(* ---------------------------- page fetcher ---------------------------- *)
\* The URL of a page request: the listing of the brand, with or without a
\* page_info cursor.
InitialUrl == [path |-> "products.json"]
CursorUrl(pageInfo) == [path |-> "products.json", page_info |-> pageInfo]
NoUrl == [absent |-> "url"]

\* response.headers.get('Link'): null, or the links of the header in
\* order.  A link is <url>; rel="..." or, malformed, a rel with no <url>.
NoLinkHeader == [absent |-> "Link"]
LinkHeader(links) == [links |-> links]
Link(url, rel) == [url |-> url, rel |-> rel]

\* The Link headers page i of a listing of n pages may carry: none, the
\* previous page only, a next link with no cursor in its URL, a rel="next"
\* with no URL and, before the last page, the next page with or without the
\* previous one.
PageLinks(i, n) ==
  { NoLinkHeader,
    LinkHeader(<<Link(CursorUrl(1), "previous")>>),
    LinkHeader(<<Link(InitialUrl, "next")>>),
    LinkHeader(<<[rel |-> "next"]>>) }
  \cup (IF i < n
        THEN { LinkHeader(<<Link(CursorUrl(i + 1), "next")>>),
               LinkHeader(<<Link(CursorUrl(1), "previous"),
                            Link(CursorUrl(i + 1), "next")>>) }
        ELSE {})

StatusText(status) ==
  CASE status = 200 -> "OK"
    [] status = 404 -> "Not Found"
    [] status = 500 -> "Internal Server Error"

\* The responses of the catalog for page i of n: 200 with up to two
\* products, each named by its page and position, or an error status.
Responses(i, n) ==
  { [status |-> 200, products |-> [k \in 1..c |-> <<i, k>>], link |-> l] :
      c \in 0..2, l \in PageLinks(i, n) }
  \cup { [status |-> st] : st \in {404, 500} }

\* The listings of a brand: what the catalog answers for each page.
Listings ==
  UNION { { pages \in [1..n -> UNION { Responses(i, n) : i \in 1..n }] :
              \A i \in 1..n : pages[i] \in Responses(i, n) } : n \in 1..MaxPages }

\* await fetch(url, ...): the page the cursor names, the first without one.
Respond(pages, url) == pages[IF "page_info" \in DOMAIN url THEN url.page_info ELSE 1]

\* response.ok
Ok(response) == response.status >= 200 /\ response.status <= 299

\* The links of a header that a regular expression for a next link with
\* (cursor TRUE) or without a page_info in its URL matches, leftmost first.
NextLinks(linkHeader, cursor) ==
  { i \in DOMAIN linkHeader.links :
      /\ linkHeader.links[i].rel = "next"
      /\ "url" \in DOMAIN linkHeader.links[i]
      /\ cursor => "page_info" \in DOMAIN linkHeader.links[i].url }

Leftmost(linkHeader, hits) == linkHeader.links[CHOOSE i \in hits : \A j \in hits : i <= j]

\* A variant of the webhook servers' parsing, as a slip in the code would
\* make it: the rel of the link is not looked at.
webhookNextUrlAnyRel(linkHeader) ==
  IF linkHeader = NoLinkHeader THEN NoUrl
  ELSE IF \A i \in DOMAIN linkHeader.links : "url" \notin DOMAIN linkHeader.links[i]
       THEN NoUrl
       ELSE linkHeader.links[CHOOSE i \in DOMAIN linkHeader.links :
                                "url" \in DOMAIN linkHeader.links[i]].url

\* The webhook servers: linkHeader.match(/<([^>]+)>;\s*rel="next"/), and
\* the URL of the match is the next request.
webhookNextUrl(linkHeader) ==
  IF linkHeader = NoLinkHeader THEN NoUrl
  ELSE IF NextLinks(linkHeader, FALSE) = {} THEN NoUrl
       ELSE Leftmost(linkHeader, NextLinks(linkHeader, FALSE)).url

\* The monitor script: linkHeader.includes('rel="next"'), then
\* linkHeader.match(/<[^>]*page_info=([^>]+)>; rel="next"/), and the URL of
\* the next request is built again with the page_info of the match.
monitorNextUrl(linkHeader) ==
  IF linkHeader = NoLinkHeader THEN NoUrl
  ELSE IF \A i \in DOMAIN linkHeader.links : linkHeader.links[i].rel # "next" THEN NoUrl
  ELSE IF NextLinks(linkHeader, TRUE) = {} THEN NoUrl
       ELSE CursorUrl(Leftmost(linkHeader, NextLinks(linkHeader, TRUE)).url.page_info)

\* A variant of the loop, as a slip in the code would make it: a response
\* that is not ok ends the loop, and the products so far are returned.
RECURSIVE getProductsForBrandPartial(_, _, _, _, _)
getProductsForBrandPartial(program, pages, url, allProducts, requested) ==
  IF Len(requested) = MaxRequests
  THEN [outcome |-> "running", requested |-> requested]
  ELSE LET response == Respond(pages, url)
           next == IF program = "monitor" THEN monitorNextUrl(response.link)
                   ELSE webhookNextUrl(response.link)
       IN IF ~Ok(response)
          THEN [outcome |-> "returns", products |-> allProducts,
                requested |-> Append(requested, url)]
          ELSE IF next = NoUrl
          THEN [outcome |-> "returns", products |-> allProducts \o response.products,
                requested |-> Append(requested, url)]
          ELSE getProductsForBrandPartial(program, pages, next,
                                          allProducts \o response.products,
                                          Append(requested, url))

\* Another: url is not cleared before the header is looked at, so that a
\* response with no next link is followed by the same request again.
RECURSIVE getProductsForBrandNoReset(_, _, _, _, _)
getProductsForBrandNoReset(program, pages, url, allProducts, requested) ==
  IF Len(requested) = MaxRequests
  THEN [outcome |-> "running", requested |-> requested]
  ELSE LET response == Respond(pages, url)
           next == IF program = "monitor" THEN monitorNextUrl(response.link)
                   ELSE webhookNextUrl(response.link)
       IN IF ~Ok(response)
          THEN [outcome |-> "throws",
                error |-> [status |-> response.status,
                           statusText |-> StatusText(response.status)],
                requested |-> Append(requested, url)]
          ELSE getProductsForBrandNoReset(program, pages,
                                          IF next = NoUrl THEN url ELSE next,
                                          allProducts \o response.products,
                                          Append(requested, url))

\* The while loop of getProductsForBrand from the request of url on, with
\* the products accumulated and the URLs requested so far: it returns the
\* products, throws the error of a response that is not ok, or is still
\* running after MaxRequests requests.
RECURSIVE getProductsForBrand(_, _, _, _, _)
getProductsForBrand(program, pages, url, allProducts, requested) ==
  IF Len(requested) = MaxRequests
  THEN [outcome |-> "running", requested |-> requested]
  ELSE LET response == Respond(pages, url)
           next == IF program = "monitor" THEN monitorNextUrl(response.link)
                   ELSE webhookNextUrl(response.link)
       IN IF ~Ok(response)
          THEN [outcome |-> "throws",
                error |-> [status |-> response.status,
                           statusText |-> StatusText(response.status)],
                requested |-> Append(requested, url)]
          ELSE IF next = NoUrl
          THEN [outcome |-> "returns", products |-> allProducts \o response.products,
                requested |-> Append(requested, url)]
          ELSE getProductsForBrand(program, pages, next,
                                   allProducts \o response.products,
                                   Append(requested, url))

(* ------------------------------ notifier ------------------------------ *)
\* The programs with a sendEmail of their own: src/server.js,
\* src/unnamed/part_001, the monitor script and the vendor-grouping server.
Notifiers == {"server.js", "part_001", "monitor", "vendors"}

\* Which of the two credentials of part_001 are configured.
Credentials == [SENDGRID_API_KEY : BOOLEAN, EMAIL_PASSWORD : BOOLEAN]

\* What the transport does with a send: it delivers, it fails (the promise
\* is rejected), it answers with an error status (HTTP API only), or it
\* never completes.
TransportOutcomes == {"sent", "rejected", "refused", "hangs"}

\* A variant of the startup code, as a slip would make it: SMTP first.
emailMethodSmtpFirst(config) ==
  IF config.EMAIL_PASSWORD THEN "smtp"
  ELSE IF config.SENDGRID_API_KEY THEN "sendgrid"
       ELSE "none"

\* part_001 at startup: let emailMethod = 'none'; if / else if.  The other
\* programs create their SMTP transporter unconditionally.
emailMethod(config) ==
  IF config.SENDGRID_API_KEY THEN "sendgrid"
  ELSE IF config.EMAIL_PASSWORD THEN "smtp"
       ELSE "none"

\* await Promise.race([sendPromise, timeoutPromise]) inside try / catch.
sendRaced(outcome) == IF outcome = "sent" THEN "success" ELSE "failure"

\* await fetch(...) inside try / catch, with no timeout.
sendEmailViaSendGrid(outcome) ==
  CASE outcome = "sent" -> "success"
    [] outcome \in {"rejected", "refused"} -> "failure"
    [] outcome = "hangs" -> "pending"

\* await transporter.sendMail(...) with no timeout, inside try / catch
\* (caught TRUE) or not; nothing is returned.
sendAwaited(outcome, caught) ==
  CASE outcome = "sent" -> "undefined"
    [] outcome \in {"rejected", "refused"} -> IF caught THEN "undefined" ELSE "throws"
    [] outcome = "hangs" -> "pending"

\* sendEmail(subject, message) of a program, with the method chosen at
\* startup: the transports it hands the message to, and how the call ends:
\* it returns "success", "failure" or "undefined", it "throws", or it is
\* "pending" for ever.
sendEmail(program, method, outcome) ==
  CASE program = "server.js" ->
         [dispatched |-> {"smtp"}, ends |-> sendRaced(outcome)]
    [] program = "part_001" /\ method = "sendgrid" ->
         [dispatched |-> {"sendgrid"}, ends |-> sendEmailViaSendGrid(outcome)]
    [] program = "part_001" /\ method = "smtp" ->
         [dispatched |-> {"smtp"}, ends |-> sendRaced(outcome)]
    [] program = "part_001" /\ method = "none" ->
         [dispatched |-> {}, ends |-> "failure"]
    [] program = "monitor" ->
         [dispatched |-> {"smtp"}, ends |-> sendAwaited(outcome, TRUE)]
    [] program = "vendors" ->
         [dispatched |-> {"smtp"}, ends |-> sendAwaited(outcome, FALSE)]

(* ---------------------------- manual check --------------------------- *)
\* What the catalog answers for one brand during a manual check: no
\* products, a product in stock, a product out of stock, or an error.
CheckNowAnswers ==
  { [products |-> <<>>],
    [products |-> <<[variants |-> <<Quantity(1)>>]>>],
    [products |-> <<[variants |-> <<Quantity(0)>>]>>],
    [error |-> "Shopify API error"] }

\* A variant of the endpoint, as a slip in the code would make it: the
\* try / catch stands inside the loop, so that the error of a brand is its
\* result and the brands after it are checked.
checkNowPartial(answers, state) ==
  [status |-> 200,
   results |-> [b \in Brands |->
                  IF "error" \in DOMAIN answers[b] THEN [error |-> answers[b].error]
                  ELSE checkBrandStock(answers[b].products)],
   error |-> Absent, fetched |-> [b \in Brands |-> b], sent |-> <<>>,
   state |-> state]

\* The loop of the endpoint from brand on: results[brand] = await
\* checkBrandStock(brand), the first error leaving the loop for the catch.
\* fetched: the brands whose catalog was asked for, in order.
RECURSIVE checkNowLoop(_, _, _, _)
checkNowLoop(answers, brand, results, fetched) ==
  IF brand > NumBrands
  THEN [status |-> 200, results |-> results, error |-> Absent, fetched |-> fetched]
  ELSE IF "error" \in DOMAIN answers[brand]
       THEN [status |-> 500, results |-> <<>>, error |-> answers[brand].error,
             fetched |-> Append(fetched, brand)]
       ELSE checkNowLoop(answers, brand + 1,
                         Append(results, checkBrandStock(answers[brand].products)),
                         Append(fetched, brand))

\* app.get('/check-now') of the webhook servers, with the remembered state
\* it runs in and the answer of the catalog for every brand: the response
\* (res.json(results), or status 500 and the message of the error), the
\* alerts handed to sendEmail and the remembered state afterwards.  The
\* loop only calls checkBrandStock.
checkNow(answers, state) ==
  LET r == checkNowLoop(answers, 1, <<>>, <<>>)
  IN [status |-> r.status, results |-> r.results, error |-> r.error,
      fetched |-> r.fetched, sent |-> <<>>, state |-> state]

(* ------------------------------- state -------------------------------- *)
VARIABLES
  app,                    \* the program that is deployed
  lastNotificationState,  \* webhook server: brand -> state, in memory
  waiting,                \* webhook server: the bag of suspended handlers, each
                          \*   [at, brand]: the await it is suspended at and the
                          \*   brand its loop is at
  tracking,               \* whether the history of alerts is recorded
  lastAlert,              \* history: brand -> kind of the latest alert that no
                          \*   observation of the opposite state has followed
  stateFile,              \* monitor and vendors: contents of STATE_FILE
  run,                    \* monitor: locals of checkAllBrands
  vrun,                   \* vendors: locals of checkBrandsStock
  ev,                     \* what the latest step did
  call                    \* the latest call of a function taken on its own:
                          \*   its arguments and what it returned

vars == <<app, lastNotificationState, waiting, tracking, lastAlert, stateFile, run,
          vrun, ev, call>>

NoBrand == NumBrands + 1          \* no brand: past the end of the list
NoEntries == [b \in Brands |-> Absent]
NotObserved == [tag |-> "none"]
FetchFailed == [tag |-> "error"]
NoCall == [fn |-> "none"]

\* op: the step; brand: the brand it was about; prev, stock: the remembered
\* state it read and the snapshot it computed; sent: the alerts it handed to
\* sendEmail; wrote: the values it stored for the brand; ok: the outcome it
\* was resumed with; done: the pass ended with it; status: the HTTP statuses
\* it responded with; alert: the alert whose sendEmail call it was resumed
\* from.
Event(op, brand, prev, stock, sent, wrote, ok, done, status) ==
  [op |-> op, brand |-> brand, prev |-> prev, stock |-> stock, sent |-> sent,
   wrote |-> wrote, ok |-> ok, done |-> done, status |-> status, alert |-> "none"]

ResumedFrom(alert, e) == [e EXCEPT !.alert = alert]

IdleRun ==
  [pc |-> "idle", idx |-> NoBrand, previousState |-> NoEntries,
   currentState |-> NoEntries, observed |-> [b \in Brands |-> NotObserved]]

IdleVRun ==
  [pc |-> "idle", products |-> <<>>, pos |-> 0, state |-> NoEntries,
   newState |-> NoEntries]

InitState ==
  /\ app \in Apps
  /\ lastNotificationState = NoEntries
  /\ waiting = EmptyBag
  /\ lastAlert = [b \in Brands |-> "none"]
  /\ stateFile = NoEntries
  /\ run = IdleRun
  /\ vrun = IdleVRun
  /\ ev = Event("init", NoBrand, Absent, Null, <<>>, <<>>, TRUE, FALSE, <<>>)
  /\ call = NoCall

Init == InitState /\ tracking = FALSE

\* The same program, with the history of alerts recorded.
InitAlerts == InitState /\ app = "webhook" /\ tracking = TRUE

(* --------------------------- webhook server --------------------------- *)
Handler(at, brand) == [at |-> at, brand |-> brand]
Suspend(bag, h) == bag (+) SetToBag({h})
Resume(bag, h) == bag (-) SetToBag({h})

\* The await a handler is suspended at after it called sendEmail, and the
\* alert that call was given.
SendAwait(kind) == IF kind = "OOS" THEN "sendOOS" ELSE "sendRestock"
AlertOf(at) == IF at = "sendOOS" THEN "OOS" ELSE "IN_STOCK"

\* The state a snapshot implies, for the history of alerts.
Opposite(kind, stock) ==
  \/ kind = "OOS" /\ ~stock.allOOS /\ stock.inStockProducts > 0
  \/ kind = "IN_STOCK" /\ stock.allOOS

Recorded(brand, kind) ==
  IF tracking THEN [lastAlert EXCEPT ![brand] = kind] ELSE lastAlert

\* A variant of the loop, as a slip in the code would make it: the fetch of
\* the next brand is started twice.
NextBrandTwice(bag, brand) ==
  IF brand < NumBrands
  THEN Suspend(Suspend(bag, Handler("fetch", brand + 1)), Handler("fetch", brand + 1))
  ELSE bag

\* The for loop moves to the next brand and suspends in its fetch, or the
\* handler returns.
NextBrand(bag, brand) ==
  IF brand < NumBrands THEN Suspend(bag, Handler("fetch", brand + 1)) ELSE bag

\* The step that takes a request also notes whether the parsed body of the
\* request was empty: !req.body || Object.keys(req.body).length === 0.
Taken(emptyBody, e) ==
  [op |-> e.op, brand |-> e.brand, prev |-> e.prev, stock |-> e.stock,
   sent |-> e.sent, wrote |-> e.wrote, ok |-> e.ok, done |-> e.done,
   status |-> e.status, alert |-> e.alert, empty |-> emptyBody]

\* Variants of the handler's prologue, as a slip in the code would make
\* them: the 401 is sent without the return, so that the pass starts anyway;
WebhookReceiveNoReturn(verified, emptyBody) ==
  /\ app = "webhook"
  /\ BagCardinality(waiting) < NumPasses
  /\ IF ~verified
     THEN /\ waiting' = Suspend(waiting, Handler("fetch", 1))
          /\ ev' = Taken(emptyBody,
                         Event("unauthorized", NoBrand, Absent, Null, <<>>, <<>>, FALSE,
                               FALSE, <<401>>))
     ELSE IF emptyBody
     THEN /\ UNCHANGED waiting
          /\ ev' = Taken(emptyBody,
                         Event("testWebhook", NoBrand, Absent, Null, <<>>, <<>>, TRUE,
                               TRUE, <<200>>))
     ELSE /\ waiting' = Suspend(waiting, Handler("fetch", 1))
          /\ ev' = Taken(emptyBody,
                         Event("accepted", NoBrand, Absent, Null, <<>>, <<>>, TRUE,
                               FALSE, <<200>>))
  /\ UNCHANGED <<call, app, lastNotificationState, tracking, lastAlert, stateFile, run,
                 vrun>>

\* the acceptance is not sent before the loop starts.
WebhookReceiveLate(verified, emptyBody) ==
  /\ app = "webhook"
  /\ BagCardinality(waiting) < NumPasses
  /\ IF ~verified
     THEN /\ UNCHANGED waiting
          /\ ev' = Taken(emptyBody,
                         Event("unauthorized", NoBrand, Absent, Null, <<>>, <<>>, FALSE,
                               TRUE, <<401>>))
     ELSE IF emptyBody
     THEN /\ UNCHANGED waiting
          /\ ev' = Taken(emptyBody,
                         Event("testWebhook", NoBrand, Absent, Null, <<>>, <<>>, TRUE,
                               TRUE, <<200>>))
     ELSE /\ waiting' = Suspend(waiting, Handler("fetch", 1))
          /\ ev' = Taken(emptyBody,
                         Event("accepted", NoBrand, Absent, Null, <<>>, <<>>, TRUE,
                               FALSE, <<>>))
  /\ UNCHANGED <<call, app, lastNotificationState, tracking, lastAlert, stateFile, run,
                 vrun>>

\* the handler as src/server.js has it, with no branch for an empty body.
WebhookReceiveNoShortcut(verified, emptyBody) ==
  /\ app = "webhook"
  /\ BagCardinality(waiting) < NumPasses
  /\ IF ~verified
     THEN /\ UNCHANGED waiting
          /\ ev' = Taken(emptyBody,
                         Event("unauthorized", NoBrand, Absent, Null, <<>>, <<>>, FALSE,
                               TRUE, <<401>>))
     ELSE /\ waiting' = Suspend(waiting, Handler("fetch", 1))
          /\ ev' = Taken(emptyBody,
                         Event("accepted", NoBrand, Absent, Null, <<>>, <<>>, TRUE,
                               FALSE, <<200>>))
  /\ UNCHANGED <<call, app, lastNotificationState, tracking, lastAlert, stateFile, run,
                 vrun>>

\* app.post('/webhook/inventory') up to its first await: verification, the
\* response, and the start of the first catalog fetch.  ev.ok is what
\* verifyWebhook(req) returned, ev.empty whether req.body had no keys.
WebhookReceive(verified, emptyBody) ==
  /\ app = "webhook"
  /\ BagCardinality(waiting) < NumPasses
  /\ IF ~verified
     THEN /\ UNCHANGED waiting
          /\ ev' = Taken(emptyBody,
                         Event("unauthorized", NoBrand, Absent, Null, <<>>, <<>>, FALSE,
                               TRUE, <<401>>))
     ELSE IF emptyBody
     THEN /\ UNCHANGED waiting
          /\ ev' = Taken(emptyBody,
                         Event("testWebhook", NoBrand, Absent, Null, <<>>, <<>>, TRUE,
                               TRUE, <<200>>))
     ELSE /\ waiting' = Suspend(waiting, Handler("fetch", 1))
          /\ ev' = Taken(emptyBody,
                         Event("accepted", NoBrand, Absent, Null, <<>>, <<>>, TRUE,
                               FALSE, <<200>>))
  /\ UNCHANGED <<call, app, lastNotificationState, tracking, lastAlert, stateFile, run, vrun>>

\* A variant of the catch, as a slip in the code would make it: the error is
\* reported to the caller, who has had the 200 already.
WebhookFetchFailsAnswers(brand) ==
  /\ app = "webhook"
  /\ BagIn(Handler("fetch", brand), waiting)
  /\ waiting' = Resume(waiting, Handler("fetch", brand))
  /\ ev' = Event("fetchError", brand, lastNotificationState[brand], Null, <<>>, <<>>,
                 FALSE, TRUE, <<500>>)
  /\ UNCHANGED <<call, app, lastNotificationState, tracking, lastAlert, stateFile, run, vrun>>

\* await checkBrandStock(brand) throws: the catch around the whole loop
\* logs the error and the handler returns.
WebhookFetchFails(brand) ==
  /\ app = "webhook"
  /\ BagIn(Handler("fetch", brand), waiting)
  /\ waiting' = Resume(waiting, Handler("fetch", brand))
  /\ ev' = Event("fetchError", brand, lastNotificationState[brand], Null, <<>>, <<>>,
                 FALSE, TRUE, <<>>)
  /\ UNCHANGED <<call, app, lastNotificationState, tracking, lastAlert, stateFile, run, vrun>>

\* await checkBrandStock(brand) returns: the state is read, the branch is
\* chosen, and either sendEmail is called or the loop moves on.
WebhookDecide(brand, products) ==
  LET stock == checkBrandStock(products)
      last == lastNotificationState[brand]
      kind == webhookTransition(stock, last)
      seen == IF Opposite(lastAlert[brand], stock) THEN "none" ELSE lastAlert[brand]
      rest == Resume(waiting, Handler("fetch", brand))
  IN /\ app = "webhook"
     /\ BagIn(Handler("fetch", brand), waiting)
     /\ IF kind # "none"
        THEN /\ waiting' = Suspend(rest, Handler(SendAwait(kind), brand))
             /\ lastAlert' = Recorded(brand, kind)
             /\ ev' = Event("decide", brand, last, stock, <<kind>>, <<>>, TRUE,
                            FALSE, <<>>)
        ELSE /\ waiting' = NextBrand(rest, brand)
             /\ lastAlert' = Recorded(brand, seen)
             /\ ev' = Event("decide", brand, last, stock, <<>>, <<>>, TRUE,
                            brand = NumBrands, <<>>)
     /\ UNCHANGED <<call, app, lastNotificationState, tracking, stateFile, run, vrun>>

\* A variant of the statements after the awaits: both store 'OOS'.
StoredAfterStale(at) == "OOS"

\* Another: the name of the branch is stored.
StoredAfterBranch(at) == at

\* The statement after each await sendEmail(...).
StoredAfter(at) == IF at = "sendOOS" THEN "OOS" ELSE "IN_STOCK"

\* await sendEmail(...) returns, with success or failure: the new state is
\* stored and the loop moves on.
WebhookSendReturns(at, brand, ok) ==
  /\ app = "webhook"
  /\ at \in {"sendOOS", "sendRestock"}
  /\ BagIn(Handler(at, brand), waiting)
  /\ lastNotificationState' = [lastNotificationState EXCEPT ![brand] = StoredAfter(at)]
  /\ waiting' = NextBrand(Resume(waiting, Handler(at, brand)), brand)
  /\ ev' = ResumedFrom(AlertOf(at),
                       Event("sendReturn", brand, lastNotificationState[brand], Null,
                             <<>>, <<StoredAfter(at)>>, ok, brand = NumBrands, <<>>))
  /\ UNCHANGED <<call, app, tracking, lastAlert, stateFile, run, vrun>>

WebhookNext ==
  \/ \E verified \in BOOLEAN, emptyBody \in BOOLEAN : WebhookReceive(verified, emptyBody)
  \/ \E brand \in Brands : WebhookFetchFails(brand)
  \/ \E brand \in Brands, products \in ProductLists : WebhookDecide(brand, products)
  \/ \E at \in {"sendOOS", "sendRestock"}, brand \in Brands, ok \in BOOLEAN :
       WebhookSendReturns(at, brand, ok)

(* --------------------------- monitor script --------------------------- *)
\* The for loop of checkAllBrands moves to the next brand, or ends and
\* saveState(currentState) replaces the file.  (The 500 ms delay that ends
\* an iteration changes nothing and is part of the step.)
MonitorAdvance(r) ==
  IF r.idx < NumBrands
  THEN /\ run' = [r EXCEPT !.pc = "fetch", !.idx = r.idx + 1]
       /\ UNCHANGED stateFile
  ELSE /\ run' = [r EXCEPT !.pc = "idle"]
       /\ stateFile' = r.currentState

\* checkAllBrands up to its first await: loadState and the first fetch.
MonitorStart ==
  /\ app = "monitor"
  /\ run.pc = "idle"
  /\ run' = [pc |-> "fetch", idx |-> 1, previousState |-> stateFile,
             currentState |-> NoEntries, observed |-> [b \in Brands |-> NotObserved]]
  /\ ev' = Event("start", NoBrand, Absent, Null, <<>>, <<>>, TRUE, FALSE, <<>>)
  /\ UNCHANGED <<call, app, lastNotificationState, waiting, tracking, lastAlert, stateFile,
                 vrun>>

\* await checkBrandStock(brand) throws: the catch inside the loop logs it.
MonitorFetchFails ==
  /\ app = "monitor"
  /\ run.pc = "fetch"
  /\ MonitorAdvance([run EXCEPT !.observed[run.idx] = FetchFailed])
  /\ ev' = Event("fetchError", run.idx, run.previousState[run.idx], Null, <<>>, <<>>,
                 FALSE, run.idx = NumBrands, <<>>)
  /\ UNCHANGED <<call, app, lastNotificationState, waiting, tracking, lastAlert, vrun>>

\* await checkBrandStock(brand) returns: null skips the brand; otherwise
\* currentState gets the brand's state and an alert is sent on a change.
MonitorDecide(products) ==
  LET brand == run.idx
      stock == monitorCheckBrandStock(products)
      prev == run.previousState[brand]
      seen == [run EXCEPT !.observed[brand] = stock]
      noted == [seen EXCEPT !.currentState[brand] =
                              IF stock.allOOS THEN "OOS" ELSE "IN_STOCK"]
  IN /\ app = "monitor"
     /\ run.pc = "fetch"
     /\ IF stock = Null
        THEN /\ MonitorAdvance(seen)
             /\ ev' = Event("noProducts", brand, prev, stock, <<>>, <<>>, TRUE,
                            brand = NumBrands, <<>>)
        ELSE IF monitorTransition(stock, prev) # "none"
        THEN /\ run' = [noted EXCEPT !.pc = "send"]
             /\ UNCHANGED stateFile
             /\ ev' = Event("decide", brand, prev, stock,
                            <<monitorTransition(stock, prev)>>, <<>>, TRUE, FALSE, <<>>)
        ELSE /\ MonitorAdvance(noted)
             /\ ev' = Event("decide", brand, prev, stock, <<>>, <<>>, TRUE,
                            brand = NumBrands, <<>>)
     /\ UNCHANGED <<call, app, lastNotificationState, waiting, tracking, lastAlert, vrun>>

\* await sendEmail(...) returns; sendEmail has caught any transport error.
MonitorSendReturns(ok) ==
  /\ app = "monitor"
  /\ run.pc = "send"
  /\ MonitorAdvance(run)
  /\ ev' = ResumedFrom(monitorTransition(run.observed[run.idx],
                                         run.previousState[run.idx]),
                       Event("sendReturn", run.idx, run.previousState[run.idx],
                             run.observed[run.idx], <<>>, <<>>, ok,
                             run.idx = NumBrands, <<>>))
  /\ UNCHANGED <<call, app, lastNotificationState, waiting, tracking, lastAlert, vrun>>

MonitorNext ==
  \/ MonitorStart
  \/ MonitorFetchFails
  \/ \E products \in ProductLists : MonitorDecide(products)
  \/ \E ok \in BOOLEAN : MonitorSendReturns(ok)

(* ------------------------- vendor-grouping server ---------------------- *)
\* Object.entries(vendors): the vendors in the order they first appear.
RECURSIVE vendorOrder(_, _)
vendorOrder(products, seen) ==
  IF products = <<>> THEN <<>>
  ELSE IF Head(products).vendor \in seen THEN vendorOrder(Tail(products), seen)
       ELSE <<Head(products).vendor>>
            \o vendorOrder(Tail(products), seen \cup {Head(products).vendor})

\* v.inventory_quantity <= 0; a missing quantity compares false.
VariantDepleted(variant) ==
  "inventory_quantity" \in DOMAIN variant /\ variant.inventory_quantity <= 0

\* products.every(prod => prod.variants.every(v => v.inventory_quantity <= 0))
vendorAllOOS(vendor, products) ==
  \A i \in DOMAIN products :
    products[i].vendor = vendor =>
      \A j \in DOMAIN products[i].variants : VariantDepleted(products[i].variants[j])

\* The if / else-if of checkBrandsStock.
vendorsTransition(allOOS, stored) ==
  IF allOOS /\ stored # "OOS" THEN "OOS"
  ELSE IF ~allOOS /\ stored = "OOS" THEN "IN_STOCK"
       ELSE "none"

\* The loop over the vendors from position pos, up to the first vendor that
\* needs an alert (kind # "none") or to the end of the list.
RECURSIVE vendorsLoop(_, _, _, _)
vendorsLoop(products, pos, state, newState) ==
  LET order == vendorOrder(products, {})
  IN IF pos > Len(order)
     THEN [pos |-> pos, newState |-> newState, kind |-> "none"]
     ELSE LET vendor == order[pos]
              allOOS == vendorAllOOS(vendor, products)
              noted == [newState EXCEPT ![vendor] = IF allOOS THEN "OOS" ELSE "IN_STOCK"]
              kind == vendorsTransition(allOOS, state[vendor])
          IN IF kind # "none"
             THEN [pos |-> pos, newState |-> noted, kind |-> kind]
             ELSE vendorsLoop(products, pos + 1, state, noted)

\* The rest of checkBrandsStock from the loop result r: suspended in
\* sendEmail, or saveState(newState) and the 200 response.
VendorsContinue(products, state, r) ==
  IF r.kind # "none"
  THEN /\ vrun' = [pc |-> "send", products |-> products, pos |-> r.pos,
                   state |-> state, newState |-> r.newState]
       /\ UNCHANGED stateFile
       /\ ev' = Event("decide", vendorOrder(products, {})[r.pos],
                      state[vendorOrder(products, {})[r.pos]], Null, <<r.kind>>, <<>>,
                      TRUE, FALSE, <<>>)
  ELSE /\ vrun' = [pc |-> "idle", products |-> products, pos |-> r.pos,
                   state |-> state, newState |-> r.newState]
       /\ stateFile' = r.newState
       /\ ev' = Event("saved", NoBrand, Absent, Null, <<>>, <<>>, TRUE, TRUE, <<200>>)

\* app.get('/check-now') up to its first await: getAllProducts starts.
VendorsStart ==
  /\ app = "vendors"
  /\ vrun.pc = "idle"
  /\ vrun' = [IdleVRun EXCEPT !.pc = "fetch"]
  /\ ev' = Event("start", NoBrand, Absent, Null, <<>>, <<>>, TRUE, FALSE, <<>>)
  /\ UNCHANGED <<call, app, lastNotificationState, waiting, tracking, lastAlert, stateFile,
                 run>>

\* await getAllProducts() throws: the endpoint answers 500.
VendorsFetchFails ==
  /\ app = "vendors"
  /\ vrun.pc = "fetch"
  /\ vrun' = [vrun EXCEPT !.pc = "idle"]
  /\ ev' = Event("fetchError", NoBrand, Absent, Null, <<>>, <<>>, FALSE, TRUE, <<500>>)
  /\ UNCHANGED <<call, app, lastNotificationState, waiting, tracking, lastAlert, stateFile,
                 run>>

\* await getAllProducts() returns: loadState, the grouping, and the loop up
\* to the first alert.
VendorsFetchReturns(products) ==
  /\ app = "vendors"
  /\ vrun.pc = "fetch"
  /\ VendorsContinue(products, stateFile, vendorsLoop(products, 1, stateFile, NoEntries))
  /\ UNCHANGED <<call, app, lastNotificationState, waiting, tracking, lastAlert, run>>

\* await sendEmail(...) returns or throws: sendEmail catches nothing, so a
\* transport error leaves checkBrandsStock and the endpoint answers 500.
VendorsSendReturns(ok) ==
  /\ app = "vendors"
  /\ vrun.pc = "send"
  /\ IF ok
     THEN VendorsContinue(vrun.products, vrun.state,
                          vendorsLoop(vrun.products, vrun.pos + 1, vrun.state,
                                      vrun.newState))
     ELSE /\ vrun' = [vrun EXCEPT !.pc = "idle"]
          /\ UNCHANGED stateFile
          /\ ev' = ResumedFrom(
                      vrun.newState[vendorOrder(vrun.products, {})[vrun.pos]],
                      Event("sendError", vendorOrder(vrun.products, {})[vrun.pos],
                            vrun.state[vendorOrder(vrun.products, {})[vrun.pos]], Null,
                            <<>>, <<>>, FALSE, TRUE, <<500>>))
  /\ UNCHANGED <<call, app, lastNotificationState, waiting, tracking, lastAlert, run>>

VendorsNext ==
  \/ VendorsStart
  \/ VendorsFetchFails
  \/ \E products \in VendorProductLists : VendorsFetchReturns(products)
  \/ \E ok \in BOOLEAN : VendorsSendReturns(ok)

\* The vendors of the shop's catalog: the monitored brands and one more.
CatalogVendors == 1..(NumBrands + 1)

\* checkBrandsStock from position pos of the vendors on, every sendEmail
\* returning: the alerts sent, in order, and the state saved at the end.
RECURSIVE checkBrandsStock(_, _, _, _, _)
checkBrandsStock(products, pos, state, newState, sent) ==
  LET r == vendorsLoop(products, pos, state, newState)
  IN IF r.kind = "none"
     THEN [sent |-> sent, saved |-> r.newState]
     ELSE checkBrandsStock(products, r.pos + 1, state, r.newState,
                           Append(sent, [vendor |-> vendorOrder(products, {})[r.pos],
                                         kind |-> r.kind]))

(* ----------------------- functions on their own ----------------------- *)
\* One behaviour is one call.  verifyWebhook(req) is called in one of the
\* servers.
CallVerifyWebhook(server, req) ==
  /\ call = NoCall
  /\ call' = [fn |-> "verifyWebhook", server |-> server, req |-> req,
               result |-> verifyWebhook(server, req)]
  /\ UNCHANGED <<app, lastNotificationState, waiting, tracking, lastAlert, stateFile,
                 run, vrun, ev>>

\* checkBrandStock is called in the webhook server or in the monitor
\* script, and getProductsForBrand hands it these products.
CallCheckBrandStock(program, products) ==
  /\ call = NoCall
  /\ call' = [fn |-> "checkBrandStock", program |-> program, products |-> products,
               result |-> IF program = "monitor" THEN monitorCheckBrandStock(products)
                          ELSE checkBrandStock(products)]
  /\ UNCHANGED <<app, lastNotificationState, waiting, tracking, lastAlert, stateFile,
                 run, vrun, ev>>

\* getProductsForBrand is called in a webhook server or in the monitor
\* script, and the catalog answers with the pages of a listing.
CallGetProductsForBrand(program, pages) ==
  /\ call = NoCall
  /\ call' = [fn |-> "getProductsForBrand", program |-> program, pages |-> pages,
               result |-> getProductsForBrand(program, pages, InitialUrl, <<>>, <<>>)]
  /\ UNCHANGED <<app, lastNotificationState, waiting, tracking, lastAlert, stateFile,
                 run, vrun, ev>>

\* sendEmail is called in a program started with some credentials, and the
\* transport does one of the things it can do.
CallSendEmail(program, config, outcome) ==
  /\ call = NoCall
  /\ call' = [fn |-> "sendEmail", program |-> program, config |-> config,
               emailMethod |-> IF program = "part_001" THEN emailMethod(config)
                               ELSE "smtp",
               outcome |-> outcome,
               result |-> sendEmail(program,
                                    IF program = "part_001" THEN emailMethod(config)
                                    ELSE "smtp",
                                    outcome)]
  /\ UNCHANGED <<app, lastNotificationState, waiting, tracking, lastAlert, stateFile,
                 run, vrun, ev>>

\* GET /check-now is called in a webhook server that remembers some state.
CallCheckNow(answers, state) ==
  /\ call = NoCall
  /\ call' = [fn |-> "check-now", answers |-> answers, state |-> state,
               result |-> checkNow(answers, state)]
  /\ UNCHANGED <<app, lastNotificationState, waiting, tracking, lastAlert, stateFile,
                 run, vrun, ev>>

\* checkBrandsStock is called; the catalog holds these products and the
\* state file this state.
CallCheckBrandsStock(products, state) ==
  /\ call = NoCall
  /\ call' = [fn |-> "checkBrandsStock", products |-> products, state |-> state,
               result |-> checkBrandsStock(products, 1, state,
                                           [v \in CatalogVendors |-> Absent], <<>>)]
  /\ UNCHANGED <<app, lastNotificationState, waiting, tracking, lastAlert, stateFile,
                 run, vrun, ev>>

(* ------------------------------- claims ------------------------------- *)
\* The remembered state of a brand in the deployed program.
Stored(b) == IF app = "webhook" THEN lastNotificationState[b] ELSE stateFile[b]

\* The state a snapshot implies.
Implied(stock) == IF stock.allOOS THEN "OOS" ELSE "IN_STOCK"

\* A pass of checkAllBrands has just ended and saved its state.
MonitorSaved == app = "monitor" /\ ev.done

Depleted(stock) == IsStock(stock) /\ stock.allOOS /\ stock.totalProducts > 0
HasStock(stock) == IsStock(stock) /\ ~stock.allOOS /\ stock.inStockProducts > 0

\* Handlers suspended between their read and their write of a brand's state.
InSend(b) ==
  CopiesIn(Handler("sendOOS", b), waiting) + CopiesIn(Handler("sendRestock", b), waiting)

\* C1: in the webhook server an alert for a brand is dispatched only when
\* the stored state differs from the state the snapshot implies, and never
\* as the same kind as the brand's previous alert unless the opposite state
\* was observed in between.
C1_AlertsAlternate ==
  [][(ev'.op = "decide" /\ ev'.sent # <<>>) =>
       /\ ev'.prev # Implied(ev'.stock)
       /\ lastAlert[ev'.brand] # ev'.sent[1]]_vars

\* C2: between the read and the write of a brand's state by one webhook
\* pass, no other pass reads or writes that brand's state.
C2_ReadModifyWriteAtomic ==
  [][app = "webhook" =>
       /\ ev'.op = "decide" => InSend(ev'.brand) = 0
       /\ ev'.op = "sendReturn" => InSend(ev'.brand) = 1]_vars

\* C3: a brand with no stored state whose snapshot is fully depleted gets
\* exactly one depletion alert, and its stored state becomes 'OOS'.
C3_UnknownDepletedAlerts ==
  /\ (app \in {"webhook", "monitor"} /\ ev.op = "decide" /\ ev.prev = Absent
        /\ Depleted(ev.stock))
       => /\ ev.sent = <<"OOS">>
          /\ app = "webhook" => BagIn(Handler("sendOOS", ev.brand), waiting)
          /\ app = "monitor" => run.pc = "send"
  /\ (app = "webhook" /\ ev.op = "sendReturn" /\ ev.alert = "OOS")
       => lastNotificationState[ev.brand] = "OOS"
  /\ MonitorSaved
       => \A b \in Brands :
            (run.previousState[b] = Absent /\ Depleted(run.observed[b]))
              => stateFile[b] = "OOS"

C3_Witness ==
  /\ app = "webhook" /\ ev.op = "sendReturn" /\ ev.alert = "OOS"
  /\ ev.prev = Absent /\ lastNotificationState[ev.brand] = "OOS"

C5_RepeatedDepletionSilent ==
  /\ (app \in {"webhook", "monitor"} /\ ev.op = "decide" /\ ev.prev = "OOS"
        /\ Depleted(ev.stock))
       => /\ ev.sent = <<>>
          /\ ev.wrote = <<>>
          /\ app = "webhook" => lastNotificationState[ev.brand] = "OOS"
          /\ app = "monitor" => run.currentState[ev.brand] = "OOS"
  /\ MonitorSaved
       => \A b \in Brands :
            (run.previousState[b] = "OOS" /\ Depleted(run.observed[b]))
              => stateFile[b] = "OOS"

C5_Witness ==
  /\ app = "webhook" /\ ev.op = "decide" /\ ev.prev = "OOS" /\ Depleted(ev.stock)
  /\ ev.sent = <<>> /\ lastNotificationState[ev.brand] = "OOS"

\* C6: a brand stored as 'OOS' whose snapshot is not fully depleted and has
\* a product in stock gets exactly one restock alert, and its stored state
\* becomes IN_STOCK.
C6_RestockAlerts ==
  /\ (app \in {"webhook", "monitor"} /\ ev.op = "decide" /\ ev.prev = "OOS"
        /\ HasStock(ev.stock))
       => /\ ev.sent = <<"IN_STOCK">>
          /\ app = "webhook" => BagIn(Handler("sendRestock", ev.brand), waiting)
          /\ app = "monitor" => run.pc = "send"
  /\ (app = "webhook" /\ ev.op = "sendReturn" /\ ev.alert = "IN_STOCK")
       => lastNotificationState[ev.brand] = "IN_STOCK"
  /\ MonitorSaved
       => \A b \in Brands :
            (run.previousState[b] = "OOS" /\ HasStock(run.observed[b]))
              => stateFile[b] = "IN_STOCK"

C6_Witness ==
  /\ app = "webhook" /\ ev.op = "sendReturn" /\ ev.alert = "IN_STOCK"
  /\ ev.prev = "OOS" /\ lastNotificationState[ev.brand] = "IN_STOCK"

\* C7: when the fetch of one brand fails in a webhook pass, the pass goes on
\* with the brands after it.
C7_FetchFailureIsolated ==
  [][(app = "webhook" /\ ev'.op = "fetchError" /\ ev'.brand < NumBrands) =>
       /\ BagCardinality(waiting') = BagCardinality(waiting)
       /\ BagIn(Handler("fetch", ev'.brand + 1), waiting')]_vars

\* C8: a brand whose fetch failed has, after the pass, the persisted state
\* it had before the pass.
C8_FetchFailureKeepsState ==
  /\ (app = "webhook" /\ ev.op = "fetchError")
       => lastNotificationState[ev.brand] = ev.prev
  /\ MonitorSaved
       => \A b \in Brands :
            run.observed[b] = FetchFailed => stateFile[b] = run.previousState[b]

\* C9: a brand that has a recorded state has one in every later state.
C9_StateNeverDeleted ==
  [][\A b \in Brands :
       /\ lastNotificationState[b] # Absent => lastNotificationState'[b] # Absent
       /\ stateFile[b] # Absent => stateFile'[b] # Absent]_vars

\* C10: when the alert of a transition fails to be sent, the brand's stored
\* state after the pass is still the new state.
C10_FailedAlertKeepsTransition ==
  (ev.op \in {"sendReturn", "sendError"} /\ ~ev.ok)
    => /\ app = "webhook" => lastNotificationState[ev.brand] = ev.alert
       /\ (app \in {"monitor", "vendors"} /\ ev.done) => stateFile[ev.brand] = ev.alert

\* The steps in which the webhook handler takes a request.
Received(e) == e.op \in {"unauthorized", "testWebhook", "accepted"}

\* C11: a webhook whose signature does not verify is answered with 401 and
\* nothing else: no catalog fetch is started, no alert is sent and
\* lastNotificationState is left as it was.
C11_UnverifiedShortCircuits ==
  [][(app = "webhook" /\ Received(ev') /\ ~ev'.ok) =>
       /\ ev'.status = <<401>>
       /\ waiting' = waiting
       /\ ev'.sent = <<>> /\ ev'.wrote = <<>>
       /\ lastNotificationState' = lastNotificationState]_vars

C11_Witness ==
  /\ app = "webhook" /\ ev.op = "unauthorized" /\ ~ev.ok /\ ev.status = <<401>>
  /\ BagCardinality(waiting) = 1

\* C14: a webhook whose signature verifies is answered with 200 in the step
\* that takes it, a reconciliation pass starts only in a step that has
\* sent that answer, and no later step of a pass, whatever its outcome,
\* responds again.
C14_AcceptedBeforeReconciling ==
  [][app = "webhook" =>
       /\ (Received(ev') /\ ev'.ok) => ev'.status = <<200>>
       /\ BagCardinality(waiting') > BagCardinality(waiting)
            => (ev'.op = "accepted" /\ ev'.status = <<200>>)
       /\ ~Received(ev') => ev'.status = <<>>]_vars

C14_Witness ==
  /\ app = "webhook" /\ ev.op = "accepted" /\ ev.ok /\ ev.status = <<200>>
  /\ BagIn(Handler("fetch", 1), waiting)

\* The latest call was of verifyWebhook.
Verifying == call.fn = "verifyWebhook"

\* C12: verifyWebhook returns false, and does not raise, when the signature
\* header is absent, when the raw body is absent, or when the claimed
\* signature and the computed digest differ in length.
C12_VerifyFailsClosed ==
  (Verifying /\ (\/ call.req.hmac = NoHeader
                 \/ call.req.rawBody = NoBody
                 \/ HeaderLength(call.req.hmac) # DigestLength))
    => call.result = "false"

\* C13: a signature that verifies for one body verifies for no body that
\* differs from it in a byte, and a request with no signature header does
\* not verify.
C13_SignatureBindsRawBytes ==
  /\ (Verifying /\ call.req.hmac = NoHeader) => call.result # "true"
  /\ (Verifying /\ call.result = "true")
       => \A other \in Bodies :
            other # call.req.rawBody
              => verifyWebhook(call.server, [call.req EXCEPT !.rawBody = other]) # "true"

\* The latest call was of checkBrandStock and returned a snapshot.
Snapshot == call.fn = "checkBrandStock" /\ IsStock(call.result)

\* C15: in every snapshot checkBrandStock returns, oosProducts and
\* inStockProducts add up to totalProducts and oosProducts lies between 0
\* and totalProducts.
C15_SnapshotCountsAddUp ==
  Snapshot =>
    /\ call.result.oosProducts + call.result.inStockProducts = call.result.totalProducts
    /\ 0 <= call.result.oosProducts
    /\ call.result.oosProducts <= call.result.totalProducts

C15_Witness ==
  /\ Snapshot /\ call.result.oosProducts = 1 /\ call.result.inStockProducts = 1
  /\ \E i \in DOMAIN call.products :
       call.products[i].variants = <<Quantity(-1), Quantity(1)>>

\* C16: a brand with zero products never has allOOS true, and a step that
\* observes zero products for a brand sends no depletion alert for it,
\* whatever the brand's stored state.
C16_EmptyBrandNeverDepleted ==
  /\ (app \in {"webhook", "monitor"} /\ ev.op \in {"decide", "noProducts"}
        /\ (ev.stock = Null \/ ev.stock.totalProducts = 0))
       => /\ ev.sent # <<"OOS">>
          /\ IsStock(ev.stock) => ~ev.stock.allOOS
  /\ (app = "vendors" /\ ev.op = "decide")
       => \E i \in DOMAIN vrun.products : vrun.products[i].vendor = ev.brand

C16_Witness ==
  /\ app = "webhook" /\ ev.op = "decide" /\ ev.stock.totalProducts = 0
  /\ ev.prev = "IN_STOCK" /\ ev.sent = <<>>

\* The sum of the quantities of the first n variants, a missing quantity
\* counting as 0.
RECURSIVE SumOfQuantities(_, _)
SumOfQuantities(variants, n) ==
  IF n = 0 THEN 0
  ELSE SumOfQuantities(variants, n - 1)
       + (IF "inventory_quantity" \in DOMAIN variants[n]
          THEN variants[n].inventory_quantity ELSE 0)

\* The products of a list whose quantities sum to 0 or less.
OutOfStock(products) ==
  { i \in DOMAIN products :
      SumOfQuantities(products[i].variants, Len(products[i].variants)) <= 0 }

\* C17: checkBrandStock counts as out of stock exactly the products whose
\* variant quantities sum to 0 or less (missing counted as 0, negatives
\* included), and allOOS is true exactly if there is a product and all are
\* out of stock.
C17_OutOfStockBySum ==
  Snapshot =>
    /\ call.result.totalProducts = Len(call.products)
    /\ call.result.oosProducts = Cardinality(OutOfStock(call.products))
    /\ call.result.allOOS <=> (/\ Len(call.products) > 0
                               /\ OutOfStock(call.products) = DOMAIN call.products)

C17_Witness ==
  /\ Snapshot /\ call.program = "monitor" /\ call.result.allOOS
  /\ call.products = << [variants |-> <<NoQuantity, Quantity(-1)>>],
                        [variants |-> <<Quantity(-1), Quantity(1)>>] >>

\* The latest call was of getProductsForBrand.
Fetching == call.fn = "getProductsForBrand"

\* A response that carries a next-page link with its cursor.
HasNextLink(response) ==
  response.link # NoLinkHeader /\ NextLinks(response.link, TRUE) # {}

\* Every page is answered with 200 and with a header as the catalog forms
\* it: no header, or links that each have a URL with a cursor.
WellFormed(pages) ==
  \A i \in DOMAIN pages :
    /\ Ok(pages[i])
    /\ pages[i].link # NoLinkHeader
         => \A j \in DOMAIN pages[i].link.links :
              /\ "url" \in DOMAIN pages[i].link.links[j]
              /\ "page_info" \in DOMAIN pages[i].link.links[j].url

\* The first page with no next-page link.
LastPage(pages) ==
  CHOOSE k \in DOMAIN pages :
    ~HasNextLink(pages[k]) /\ \A i \in 1..(k - 1) : HasNextLink(pages[i])

\* The products of pages 1..k, in page order.
RECURSIVE PagesInOrder(_, _)
PagesInOrder(pages, k) ==
  IF k = 0 THEN <<>> ELSE PagesInOrder(pages, k - 1) \o pages[k].products

\* C18: on a well-formed listing getProductsForBrand requests the first
\* page with no cursor and then the page each next link names, up to and
\* including the first page with no next link, and returns the products of
\* those pages in page order (none, and no error, if there are none).
C18_PagesConcatenated ==
  (Fetching /\ WellFormed(call.pages)) =>
    /\ call.result.outcome = "returns"
    /\ call.result.requested =
         [i \in 1..LastPage(call.pages) |-> IF i = 1 THEN InitialUrl ELSE CursorUrl(i)]
    /\ call.result.products = PagesInOrder(call.pages, LastPage(call.pages))

C18_Witness ==
  /\ Fetching /\ WellFormed(call.pages) /\ call.program = "monitor"
  /\ call.result.requested = <<InitialUrl, CursorUrl(2)>>
  /\ call.result.products = << <<1, 1>>, <<1, 2>>, <<2, 1>> >>

\* C19: when a page request of getProductsForBrand, the first or a later
\* one, is answered with a status outside 2xx, the call throws an error
\* with that status and its reason and returns no list of products.
C19_ErrorAbortsFetch ==
  (Fetching /\ \E j \in DOMAIN call.result.requested :
                  ~Ok(Respond(call.pages, call.result.requested[j])))
    => /\ call.result.outcome = "throws"
       /\ "products" \notin DOMAIN call.result
       /\ LET response == Respond(call.pages,
                                   call.result.requested[Len(call.result.requested)])
          IN call.result.error = [status |-> response.status,
                                  statusText |-> StatusText(response.status)]

C19_Witness ==
  /\ Fetching /\ call.result.outcome = "throws"
  /\ call.result.requested = <<InitialUrl, CursorUrl(2)>>
  /\ call.pages[1].products # <<>>
  /\ call.result.error = [status |-> 500, statusText |-> "Internal Server Error"]

\* C20: a response whose Link header is absent, or has no next link with a
\* URL and a page_info cursor, is the last one getProductsForBrand asks
\* for, and the call returns the products accumulated so far.
C20_MalformedLinkEndsFetch ==
  Fetching =>
    \A j \in DOMAIN call.result.requested :
      LET response == Respond(call.pages, call.result.requested[j])
      IN (Ok(response) /\ ~HasNextLink(response))
           => /\ j = Len(call.result.requested)
              /\ call.result.outcome = "returns"

\* The steps that end the work of a pass on a brand: a decision with no
\* alert, an alert that has returned, no products, a failed fetch.
EndsBrand(e) ==
  \/ e.op = "decide" /\ e.sent = <<>>
  \/ e.op \in {"sendReturn", "noProducts", "fetchError"}

\* C23: a pass takes the brands one at a time in configuration order: the
\* fetch of the first brand starts when the pass starts, the fetch of brand
\* i+1 starts only in the step that ends the work on brand i, and no step
\* of a pass adds a second fetch or alert in flight.
C23_BrandsInSequence ==
  [][/\ app = "webhook" =>
          /\ BagCardinality(waiting') <= BagCardinality(waiting)
                                         + (IF ev'.op = "accepted" THEN 1 ELSE 0)
          /\ \A b \in Brands :
               CopiesIn(Handler("fetch", b), waiting')
                 > CopiesIn(Handler("fetch", b), waiting)
                 => \/ b = 1 /\ ev'.op = "accepted"
                    \/ b > 1 /\ ev'.brand = b - 1 /\ EndsBrand(ev')
     /\ app = "monitor" =>
          /\ run'.pc = "fetch" /\ run'.idx # run.idx
               => \/ run'.idx = 1 /\ ev'.op = "start"
                  \/ run'.idx = run.idx + 1 /\ ev'.brand = run.idx /\ EndsBrand(ev')
          /\ run'.pc = "send" => (run.pc = "fetch" /\ run'.idx = run.idx)]_vars

C23_Witness ==
  /\ app = "webhook" /\ ev.op = "sendReturn" /\ ev.brand = 1
  /\ BagIn(Handler("fetch", 2), waiting) /\ BagCardinality(waiting) = 1

\* C24: a manual check whose fetches all succeed does for every brand what
\* a verified webhook does from the same remembered state and the same
\* snapshot: it sends the alert of the transition, if there is one, and
\* stores the new state; and its result has one entry per brand.
C24_ManualCheckReconciles ==
  (call.fn = "check-now" /\ call.result.status = 200) =>
    \A b \in Brands :
      LET stockStatus == checkBrandStock(call.answers[b].products)
          kind == webhookTransition(stockStatus, call.state[b])
      IN /\ call.result.results[b] = stockStatus
         /\ kind # "none"
              => /\ \E i \in DOMAIN call.result.sent : call.result.sent[i] = <<b, kind>>
                 /\ call.result.state[b] = kind

\* The latest call was of checkBrandsStock.
Grouping == call.fn = "checkBrandsStock"

\* C26: only monitored brands are handled: every brand with a stored state
\* is in the configured list, and so is every brand an alert is sent for,
\* whatever vendors the catalog holds.
C26_OnlyConfiguredBrands ==
  /\ DOMAIN lastNotificationState \subseteq Brands
  /\ Grouping =>
       /\ \A i \in DOMAIN call.result.sent : call.result.sent[i].vendor \in Brands
       /\ \A v \in CatalogVendors : call.result.saved[v] # Absent => v \in Brands

\* C27: checkBrandsStock takes a vendor to be all out of stock exactly if
\* the variant quantities of each of its products sum to 0 or less, a
\* missing quantity counting as 0.
C27_VendorRuleIsSumRule ==
  Grouping =>
    \A v \in CatalogVendors :
      (\E i \in DOMAIN call.products : call.products[i].vendor = v)
        => (call.result.saved[v] = "OOS"
              <=> \A i \in DOMAIN call.products :
                    call.products[i].vendor = v
                      => SumOfQuantities(call.products[i].variants,
                                         Len(call.products[i].variants)) <= 0)

\* C28: in the webhook server a brand stored as 'OOS' for which a pass
\* observes zero products gets no restock alert and stays 'OOS'.
C28_EmptyBrandNoRestock ==
  (app = "webhook" /\ ev.op = "decide" /\ ev.prev = "OOS"
     /\ ev.stock.totalProducts = 0)
    => /\ ~ev.stock.allOOS /\ ev.stock.inStockProducts = 0
       /\ ev.sent = <<>> /\ ev.wrote = <<>>
       /\ lastNotificationState[ev.brand] = "OOS"

C28_Witness ==
  /\ app = "webhook" /\ ev.op = "decide" /\ ev.prev = "OOS" /\ ev.done
  /\ ev.stock.totalProducts = 0 /\ lastNotificationState[ev.brand] = "OOS"
  /\ waiting = EmptyBag

\* The writes of the webhook server follow the alerts: a brand's state
\* changes only in the step in which an alert for that brand returns, and
\* that step stores the state of the alert's kind, once.
WritesFollowAlerts ==
  /\ \A b \in Brands :
       lastNotificationState'[b] # lastNotificationState[b]
         => (ev'.op = "sendReturn" /\ ev'.brand = b)
  /\ ev'.op = "sendReturn"
       => /\ InSend(ev'.brand) > 0
          /\ ev'.wrote = <<ev'.alert>>
          /\ lastNotificationState'[ev'.brand] = ev'.alert

\* While an alert is in flight the brand's state is still the one the
\* alert's branch was taken in.
PreTransitionWhileInFlight ==
  \A b \in Brands :
    /\ BagIn(Handler("sendOOS", b), waiting) => lastNotificationState[b] # "OOS"
    /\ BagIn(Handler("sendRestock", b), waiting) => lastNotificationState[b] = "OOS"

\* C29: in the webhook server every write of a brand's state comes after,
\* and every returned alert is followed by, exactly one another, and while
\* an alert is in flight the stored state holds the value from before the
\* transition.
C29_WritesPairWithAlerts ==
  [][app = "webhook" => (WritesFollowAlerts /\ PreTransitionWhileInFlight')]_vars

\* C30: the stored state of a brand, in memory or in the state file, is
\* absent, 'OOS' or 'IN_STOCK'.
C30_StateValues ==
  \A b \in Brands :
    /\ lastNotificationState[b] \in {Absent, "OOS", "IN_STOCK"}
    /\ stateFile[b] \in {Absent, "OOS", "IN_STOCK"}

C30_Witness ==
  /\ app = "webhook" /\ ev.op = "sendReturn" /\ ~ev.ok
  /\ lastNotificationState[1] = "OOS" /\ lastNotificationState[2] = "IN_STOCK"

\* The latest call was of sendEmail.
Notifying == call.fn = "sendEmail"

\* C21: whatever the transport does, sendEmail does not raise.
C21_NotifierNeverRaises ==
  Notifying => call.result.ends # "throws"

\* C22: when the configured transport of a webhook server never completes
\* its send, sendEmail still returns, with a failure.
C22_NotifierTimesOut ==
  (Notifying /\ call.program \in {"server.js", "part_001"}
     /\ call.emailMethod # "none" /\ call.outcome = "hangs")
    => call.result.ends = "failure"

\* C25: emailMethod is one of 'sendgrid', 'smtp' and 'none', SendGrid
\* taking precedence when both credentials are configured, and a sendEmail
\* call hands the message to no transport other than that one.
C25_OneTransport ==
  (Notifying /\ call.program = "part_001") =>
    /\ call.emailMethod \in {"sendgrid", "smtp", "none"}
    /\ call.config.SENDGRID_API_KEY => call.emailMethod = "sendgrid"
    /\ (~call.config.SENDGRID_API_KEY /\ call.config.EMAIL_PASSWORD)
         => call.emailMethod = "smtp"
    /\ (~call.config.SENDGRID_API_KEY /\ ~call.config.EMAIL_PASSWORD)
         => call.emailMethod = "none"
    /\ call.result.dispatched \subseteq {call.emailMethod}
    /\ Cardinality(call.result.dispatched) <= 1

C25_Witness ==
  /\ Notifying /\ call.program = "part_001"
  /\ call.config.SENDGRID_API_KEY /\ call.config.EMAIL_PASSWORD
  /\ call.emailMethod = "sendgrid" /\ call.result.dispatched = {"sendgrid"}

\* C31: every request the webhook handler takes is answered exactly once,
\* in the step that takes it: 401 when the signature does not verify, 200
\* when it does, with an empty body or not; and no later step of the pass,
\* a failed fetch or a failed alert included, answers again.
C31_OneResponsePerRequest ==
  app = "webhook" =>
    /\ Received(ev) => /\ Len(ev.status) = 1
                       /\ ev.status[1] = (IF ev.ok THEN 200 ELSE 401)
    /\ ~Received(ev) => ev.status = <<>>

C31_Witness ==
  /\ app = "webhook" /\ ev.op = "fetchError" /\ ev.brand = NumBrands
  /\ ev.status = <<>> /\ BagCardinality(waiting) = 1

\* C32: a webhook whose signature verifies and whose parsed body is empty
\* is answered with 200 and nothing else: no catalog fetch is started, no
\* alert is sent and lastNotificationState is left as it was.
C32_TestWebhookOnlyAcknowledged ==
  [][(app = "webhook" /\ Received(ev') /\ ev'.ok /\ ev'.empty) =>
       /\ ev'.status = <<200>>
       /\ waiting' = waiting
       /\ ev'.sent = <<>> /\ ev'.wrote = <<>>
       /\ lastNotificationState' = lastNotificationState]_vars

C32_Witness ==
  /\ app = "webhook" /\ ev.op = "testWebhook" /\ ev.ok /\ ev.empty
  /\ ev.status = <<200>> /\ BagIn(Handler("sendRestock", 1), waiting)
  /\ lastNotificationState[1] = "OOS"

\* A response that carries no next link: no Link header, or no rel="next"
\* with a URL in it.
NoNextLink(response) ==
  response.link = NoLinkHeader \/ NextLinks(response.link, FALSE) = {}

\* A listing of N pages with no failure: every page is answered with 200,
\* every page before the last carries the next link to the page after it,
\* and the last page carries no next link.
FinitelyManyPages(pages) ==
  /\ \A i \in DOMAIN pages : Ok(pages[i])
  /\ \A i \in 1..(Len(pages) - 1) :
       /\ ~NoNextLink(pages[i])
       /\ Leftmost(pages[i].link, NextLinks(pages[i].link, FALSE)).url = CursorUrl(i + 1)
  /\ NoNextLink(pages[Len(pages)])

\* C33: on a listing of N pages with no failure getProductsForBrand makes
\* exactly N requests and returns; and whatever the listing, a response that
\* is not ok or carries no next link is the last one it asks for, and the
\* call ends with it.
C33_FetchTerminates ==
  Fetching =>
    /\ FinitelyManyPages(call.pages)
         => /\ call.result.outcome = "returns"
            /\ Len(call.result.requested) = Len(call.pages)
    /\ \A j \in DOMAIN call.result.requested :
         LET response == Respond(call.pages, call.result.requested[j])
         IN (~Ok(response) \/ NoNextLink(response))
              => /\ j = Len(call.result.requested)
                 /\ call.result.outcome # "running"

C33_Witness ==
  /\ Fetching /\ call.program = "webhook" /\ FinitelyManyPages(call.pages)
  /\ Len(call.pages) = MaxPages
  /\ call.pages[MaxPages].link = LinkHeader(<<[rel |-> "next"]>>)
  /\ call.result.outcome = "returns"
  /\ Len(call.result.requested) = MaxPages

\* The first brand whose catalog fetch fails.
FirstFailing(answers) ==
  CHOOSE b \in Brands :
    /\ "error" \in DOMAIN answers[b]
    /\ \A a \in 1..(b - 1) : "error" \notin DOMAIN answers[a]

\* C34: when the catalog fetch of a brand fails during a manual check, the
\* endpoint answers 500 with the error and no per-brand results, no brand
\* after the failing one is fetched, and lastNotificationState is as it was.
C34_ManualCheckFailsWhole ==
  (call.fn = "check-now" /\ \E b \in Brands : "error" \in DOMAIN call.answers[b]) =>
    /\ call.result.status = 500
    /\ call.result.results = <<>>
    /\ call.result.error = call.answers[FirstFailing(call.answers)].error
    /\ call.result.fetched = [b \in 1..FirstFailing(call.answers) |-> b]
    /\ call.result.state = call.state

C34_Witness ==
  /\ call.fn = "check-now" /\ "error" \in DOMAIN call.answers[1]
  /\ call.answers[NumBrands] = [products |-> <<[variants |-> <<Quantity(0)>>]>>]
  /\ call.state[NumBrands] = "IN_STOCK"
  /\ call.result.status = 500 /\ call.result.fetched = <<1>>

(* ---------------------------- specifications --------------------------- *)
Next == WebhookNext \/ MonitorNext \/ VendorsNext

Spec == Init /\ [][Next]_vars

SpecAlerts == InitAlerts /\ [][WebhookNext]_vars

\* The functions of the programs, each called on its own with any input.
InitCalls == InitState /\ app = "webhook" /\ tracking = FALSE

CallsNext ==
  \/ \E server \in Servers, req \in Requests : CallVerifyWebhook(server, req)
  \/ \E program \in {"webhook", "monitor"},
        products \in SeqsUpTo({ [variants |-> v] : v \in StockVariants }, MaxProducts) :
       CallCheckBrandStock(program, products)
  \/ \E program \in {"webhook", "monitor"}, pages \in Listings :
       CallGetProductsForBrand(program, pages)
  \/ \E program \in Notifiers, config \in Credentials, outcome \in TransportOutcomes :
       CallSendEmail(program, config, outcome)
  \/ \E answers \in [Brands -> CheckNowAnswers],
        state \in [Brands -> {Absent, "OOS", "IN_STOCK"}] :
       CallCheckNow(answers, state)
  \/ \E products \in SeqsUpTo({ [vendor |-> v, variants |-> x] :
                                    v \in CatalogVendors,
                                    x \in SampleVariants \cup {<<NoQuantity>>} },
                                MaxProducts),
        stored \in {Absent, "OOS"} :
       CallCheckBrandsStock(products, [v \in CatalogVendors |-> stored])

SpecCalls == InitCalls /\ [][CallsNext]_vars
====
